---- MODULE Spec2Model ----
(***************************************************************************)
(* Model of app.py of the FHA air-quality dashboard:                       *)
(*   - load_data (lines 38-78): the Dropbox-backed snapshot cache with its *)
(*     revision marker, memoised by st.cache_data;                         *)
(*   - the summary metrics, the AQI category distribution and the          *)
(*     latest-per-group reductions computed from filtered_df.              *)
(***************************************************************************)
EXTENDS Integers, Sequences, FiniteSets, TLC

(***************************************************************************)
(* Bounds of the model.                                                    *)
(***************************************************************************)
\* number of revisions the remote object goes through
MaxRev == 3
\* metadata lookups allowed between two resets of the memo
MaxCalls == 3
\* rows of a filtered table in the summary and map views
MaxRows == 3
\* rows of a filtered table in the category view
MaxCatRows == 2
\* largest Avg_AQI of a single-row table in the category view
MaxAqi == 305
\* sensors 1..MaxSensor; two sensors share a ZIP code
MaxSensor == 3
\* distinct calendar dates of the daily summary
MaxDays == 80
\* dates of the daily summary whose mean lies strictly between 50 and 101
MaxMidDays == 1

(***************************************************************************)
(* Files and revision tokens.                                              *)
(* A file is [exists, data]; data is a sequence of bytes/characters.       *)
(* Characters are naturals, 0 stands for a whitespace character.           *)
(***************************************************************************)
WS == 0
\* bytes of one snapshot
ContentLen == 2

NoFile == [exists |-> FALSE, data |-> << >>]
FileOf(bytes) == [exists |-> TRUE, data |-> bytes]

\* metadata.rev of revision r: a token without whitespace
RevToken(r) == << r >>

\* res.content of revision r: the whole database file of that revision
Content(r) == [i \in 1..ContentLen |-> r]

\* str.strip(): drop leading and trailing whitespace
RECURSIVE LStrip(_)
LStrip(s) == IF s # << >> /\ Head(s) = WS THEN LStrip(Tail(s)) ELSE s
RECURSIVE RStrip(_)
RStrip(s) == IF s # << >> /\ s[Len(s)] = WS
             THEN RStrip(SubSeq(s, 1, Len(s) - 1)) ELSE s
Strip(s) == RStrip(LStrip(s))

\* duckdb.connect(local_path, read_only=True) + SELECT * : the table of the
\* revision whose complete content the file holds; 0 when the file is not a
\* complete database (the connect/execute raises).
NoTable == 0
ReadTable(bytes) ==
    IF Len(bytes) = ContentLen /\ \A i \in 1..ContentLen : bytes[i] = bytes[1]
    THEN bytes[1] ELSE NoTable

\* lines 52-55: both files exist and the stripped marker equals remote_rev
IsUpToDate_NoCompare(file, marker, rev) == FALSE
IsUpToDate(file, marker, rev) ==
    /\ file.exists
    /\ marker.exists
    /\ Strip(marker.data) = rev

\* line 65: open(local_path, "wb") truncates (or creates) the file
OpenWb(file) == FileOf(<< >>)

\* lines 70-71: the marker is overwritten with remote_rev
WriteMarker_Stale(marker, rev) == marker
WriteMarker(marker, rev) == FileOf(rev)

\* line 38: st.cache_data returns the stored value when there is one
NoMemo == [set |-> FALSE, table |-> NoTable]
MemoHit_Never(m) == FALSE
MemoHit(m) == m.set

(***************************************************************************)
(* IEEE-754 double arithmetic of the percentages (lines 171-172).          *)
(* A positive double is [m, e]: the MantBits-bit significand m, a big      *)
(* natural, and the exponent e, with value m * 2^e.                        *)
(***************************************************************************)
\* significand bits of an IEEE-754 double
MantBits == 53
\* big naturals are sequences of limbs, most significant first
LimbBits == 13
Base == 2 ^ LimbBits

\* value of bit i (0 = least significant) of the big natural n
BitAt(n, i) ==
    LET j == Len(n) - (i \div LimbBits)
    IN  IF j < 1 THEN 0 ELSE (n[j] \div (2 ^ (i % LimbBits))) % 2

\* n mod 2^s # 0
LowNonZero(n, s) ==
    \E i \in 0..(s - 1) : BitAt(n, i) = 1

RECURSIVE SmallBitLen(_)
SmallBitLen(v) == IF v = 0 THEN 0 ELSE 1 + SmallBitLen(v \div 2)

RECURSIVE Normal(_)
Normal(n) == IF n # << >> /\ Head(n) = 0 THEN Normal(Tail(n)) ELSE n

\* number of bits of n
BitLen(n) ==
    LET m == Normal(n)
    IN  IF m = << >> THEN 0
        ELSE LimbBits * (Len(m) - 1) + SmallBitLen(Head(m))

\* n * c + carry, for a small natural c
RECURSIVE MulAdd(_, _, _)
MulAdd(n, c, carry) ==
    IF n = << >> THEN (IF carry = 0 THEN << >> ELSE << carry >>)
    ELSE LET v == n[Len(n)] * c + carry
         IN  MulAdd(SubSeq(n, 1, Len(n) - 1), c, v \div Base) \o << v % Base >>

\* floor(n / 2^s)
ShrFloor(n, s) ==
    LET a == s \div LimbBits
        b == s % LimbBits
        k == Len(n) - a
    IN  IF k <= 0 THEN << >>
        ELSE Normal([i \in 1..k |->
                 (n[i] \div (2 ^ b))
                 + (IF i > 1 THEN (n[i - 1] % (2 ^ b)) * (2 ^ (LimbBits - b)) ELSE 0)])

RECURSIVE ToInt(_)
ToInt(n) == IF n = << >> THEN 0
            ELSE Base * ToInt(SubSeq(n, 1, Len(n) - 1)) + n[Len(n)]

\* round-to-nearest-even of (n + sticky) * 2^e to MantBits significant bits
RoundNearestEven(n, sticky, e) ==
    LET s == BitLen(n) - MantBits
        q == ShrFloor(n, s)
        up == /\ BitAt(n, s - 1) = 1
              /\ (sticky \/ LowNonZero(n, s - 1) \/ BitAt(n, s) = 1)
        q1 == MulAdd(q, 1, 1)
    IN  IF s <= 0 THEN [m |-> Normal(n), e |-> e]
        ELSE IF ~up THEN [m |-> q, e |-> e + s]
        ELSE IF BitLen(q1) > MantBits THEN [m |-> ShrFloor(q1, 1), e |-> e + s + 1]
        ELSE [m |-> q1, e |-> e + s]

\* digits of r/t in base 2^LimbBits, r < t
RECURSIVE DivDigits(_, _, _)
DivDigits(r, t, k) ==
    IF k = 0 THEN << >>
    ELSE << (r * Base) \div t >> \o DivDigits((r * Base) % t, t, k - 1)

RECURSIVE DivRem(_, _, _)
DivRem(r, t, k) == IF k = 0 THEN r ELSE DivRem((r * Base) % t, t, k - 1)

RECURSIVE Shift(_, _)
Shift(g, t) == IF g >= t THEN 0 ELSE 1 + Shift(2 * g, t)

\* the double g / t, for naturals 0 < g <= t
FloatDiv(g, t) ==
    LET k == Shift(g, t)
        r0 == g * (2 ^ k) - t
        nd == (MantBits - 1) \div LimbBits + 1
    IN  RoundNearestEven(<< 1 >> \o DivDigits(r0, t, nd),
                         DivRem(r0, t, nd) # 0,
                         0 - k - nd * LimbBits)

\* the double f * c, for a small natural c
FloatMul(f, c) == RoundNearestEven(MulAdd(f.m, c, 0), FALSE, f.e)

\* round(f, 1) in tenths
Round1(f) ==
    LET b == MulAdd(f.m, 10, 0)
        nf == 0 - f.e
        I == ToInt(ShrFloor(b, nf))
    IN  IF BitAt(b, nf - 1) = 1 /\ (LowNonZero(b, nf - 1) \/ I % 2 = 1)
        THEN I + 1 ELSE I

\* lines 171-172: round((n / total_days) * 100, 1) if total_days > 0 else 0,
\* in tenths of a percent
PctOfDays(n, total) ==
    IF total > 0
    THEN IF n = 0 THEN 0 ELSE Round1(FloatMul(FloatDiv(n, total), 100))
    ELSE 0


(***************************************************************************)
(* Tables of hourly readings.                                              *)
(***************************************************************************)
\* hours of a calendar date (.dt.date, line 164)
HoursPerDay == 24

\* the ZIP code of a sensor: many sensors to one ZIP, stable per sensor
ZipOf(s) == (s + 1) \div 2

Row(s, t, a) ==
    [Sensor_ID |-> s, Zip_Code |-> ZipOf(s), Hour_Timestamp |-> t, Avg_AQI |-> a]

\* two hours of one calendar date and one hour of the next
Timestamps == {0, 1, HoursPerDay}
SummaryAqi == {30, 90}
BoundaryAqi == {0, 50, 51, 100, 101, 150, 151, 200, 201, 300, 301, MaxAqi}

\* (Sensor_ID, Hour_Timestamp) is unique within a table; the tables of the
\* summary and map views are listed by sensor, then by hour (the index labels
\* are arbitrary and every sorted order of the rows is explored)
UniqueKeys(df) ==
    \A i, j \in 1..Len(df) :
        i < j => \/ df[i].Sensor_ID < df[j].Sensor_ID
                 \/ /\ df[i].Sensor_ID = df[j].Sensor_ID
                    /\ df[i].Hour_Timestamp < df[j].Hour_Timestamp

SummaryTables ==
    UNION { { df \in [1..n -> { Row(s, t, a) : s \in 1..MaxSensor,
                                               t \in Timestamps,
                                               a \in SummaryAqi }] :
                UniqueKeys(df) } : n \in 1..MaxRows }

CatTables ==
    { << Row(1, 0, a) >> : a \in 0..MaxAqi }
    \cup UNION { { [i \in 1..n |-> Row(i, 0, col[i])] :
                      col \in [1..n -> BoundaryAqi] } : n \in 2..MaxCatRows }

(***************************************************************************)
(* AQI categories (lines 189-211).                                         *)
(***************************************************************************)
categorize_aqi_Strict(aqi) ==
    IF aqi < 50 THEN "Good"
    ELSE IF aqi < 100 THEN "Moderate"
    ELSE IF aqi < 150 THEN "Unhealthy (Sensitive)"
    ELSE IF aqi < 200 THEN "Unhealthy"
    ELSE IF aqi < 300 THEN "Very Unhealthy"
    ELSE "Hazardous"
categorize_aqi(aqi) ==
    IF aqi <= 50 THEN "Good"
    ELSE IF aqi <= 100 THEN "Moderate"
    ELSE IF aqi <= 150 THEN "Unhealthy (Sensitive)"
    ELSE IF aqi <= 200 THEN "Unhealthy"
    ELSE IF aqi <= 300 THEN "Very Unhealthy"
    ELSE "Hazardous"

category_order ==
    << "Good", "Moderate", "Unhealthy (Sensitive)",
       "Unhealthy", "Very Unhealthy", "Hazardous" >>

\* value_counts(): one row per value that occurs in the column
ValueCount(col, c) == Cardinality({ i \in 1..Len(col) : col[i] = c })

\* lines 198-211: the counts of the categories that occur, sorted by the
\* categorical order
RECURSIVE CountsFrom(_, _)
CountsFrom(col, k) ==
    IF k > Len(category_order) THEN << >>
    ELSE (IF ValueCount(col, category_order[k]) > 0
          THEN << [Category |-> category_order[k],
                   Count |-> ValueCount(col, category_order[k])] >>
          ELSE << >>) \o CountsFrom(col, k + 1)
CatCounts(col) == CountsFrom(col, 1)

(***************************************************************************)
(* Latest row per group (lines 152, 330) and best / worst ZIP (155-156).   *)
(***************************************************************************)
Perms(n) == { p \in [1..n -> 1..n] : \A i, j \in 1..n : p[i] = p[j] => i = j }

\* sort_values("Hour_Timestamp"): the default sort is not stable, so rows of
\* equal timestamp come out in any order
SortedOrders(df) ==
    { p \in Perms(Len(df)) :
        \A i, j \in 1..Len(df) :
            i < j => df[p[i]].Hour_Timestamp <= df[p[j]].Hour_Timestamp }

RECURSIVE KeepIdx(_, _, _)
KeepIdx(order, keep, i) ==
    IF i > Len(order) THEN << >>
    ELSE (IF i \in keep THEN << order[i] >> ELSE << >>) \o KeepIdx(order, keep, i + 1)

\* groupby(key).tail(1): the last row of every group, in the order given
GroupTail_Head(df, key, order) ==
    KeepIdx(order,
            { i \in 1..Len(order) :
                \A j \in 1..(i - 1) : df[order[j]][key] # df[order[i]][key] },
            1)
GroupTail(df, key, order) ==
    KeepIdx(order,
            { i \in 1..Len(order) :
                \A j \in (i + 1)..Len(order) : df[order[j]][key] # df[order[i]][key] },
            1)

\* idxmin() / idxmax(): the index label of the first minimum / maximum
IdxMin(df, sel) ==
    LET k == CHOOSE k \in 1..Len(sel) :
                /\ \A j \in 1..Len(sel) : df[sel[k]].Avg_AQI <= df[sel[j]].Avg_AQI
                /\ \A j \in 1..(k - 1) : df[sel[j]].Avg_AQI > df[sel[k]].Avg_AQI
    IN  sel[k]
IdxMax(df, sel) ==
    LET k == CHOOSE k \in 1..Len(sel) :
                /\ \A j \in 1..Len(sel) : df[sel[k]].Avg_AQI >= df[sel[j]].Avg_AQI
                /\ \A j \in 1..(k - 1) : df[sel[j]].Avg_AQI < df[sel[k]].Avg_AQI
    IN  sel[k]

(***************************************************************************)
(* Daily summary (lines 164-172).                                          *)
(***************************************************************************)
DateOf(t) == t \div HoursPerDay

RECURSIVE SumSeq(_)
SumSeq(q) == IF q = << >> THEN 0 ELSE Head(q) + SumSeq(Tail(q))

\* the Avg_AQI values of the rows of one date
RECURSIVE ReadingsOf(_, _, _)
ReadingsOf(df, d, i) ==
    IF i > Len(df) THEN << >>
    ELSE (IF DateOf(df[i].Hour_Timestamp) = d THEN << df[i].Avg_AQI >> ELSE << >>)
         \o ReadingsOf(df, d, i + 1)

Dates(df) == { DateOf(df[i].Hour_Timestamp) : i \in 1..Len(df) }

\* line 168: the mean of the date's readings is <= 50
GoodDay(readings) == SumSeq(readings) <= 50 * Len(readings)
\* line 169: the mean of the date's readings is >= 101
UnhealthyDay(readings) == SumSeq(readings) >= 101 * Len(readings)

\* the readings of one more calendar date
DayReadings ==
    UNION { [1..n -> {40, 50, 51, 100, 101, 160}] : n \in 1..2 }

VARIABLES
    remoteRev,      \* revision of the remote object at DROPBOX_UPLOAD_PATH
    localFile,      \* /tmp/dummy_air_quality.duckdb
    revFile,        \* /tmp/dummy_air_quality.rev
    memo,           \* st.cache_data entry of load_data
    pc,             \* position of the running load_data: "idle" | "download"
    remote_rev,     \* local variable remote_rev of load_data
    preFile,        \* localFile when the current/last load_data was entered
    preMarker,      \* revFile when the current/last load_data was entered
    outcome,        \* how the last load_data ended
    path,           \* which branch the last load_data took
    result,         \* table returned by the last load_data
    dlCalls,        \* files_download calls of the current/last load_data
    metaCalls,      \* files_get_metadata calls of the current/last load_data
    sessMeta,       \* files_get_metadata calls since the memo was last reset
    sessDl,         \* files_download calls since the memo was last reset
    filtered_df,    \* the filtered table of hourly readings (line 133)
    AQI_Category,   \* column AQI_Category of filtered_df (line 197)
    cat_counts,     \* the category distribution (lines 198-211)
    latest,         \* index labels of the latest row per ZIP code (line 152)
    best_zip,       \* index label of the best ZIP's row (line 155)
    worst_zip,      \* index label of the worst ZIP's row (line 156)
    latest_locations, \* index labels of the latest row per sensor (line 330)
    total_days,     \* line 167
    good_days,      \* line 168
    unhealthy_days, \* line 169
    pct_good_days,  \* line 171, in tenths of a percent
    pct_unhealthy_days \* line 172, in tenths of a percent

loadVars == << remoteRev, localFile, revFile, memo, pc, remote_rev, preFile,
               preMarker, outcome, path, result, dlCalls, metaCalls,
               sessMeta, sessDl >>

catVars == << AQI_Category, cat_counts >>
summaryVars == << latest, best_zip, worst_zip, latest_locations >>
dayVars == << total_days, good_days, unhealthy_days, pct_good_days,
              pct_unhealthy_days >>
aggVars == << filtered_df, catVars, summaryVars, dayVars >>

vars == << loadVars, aggVars >>

InitLoad ==
    /\ remoteRev = 1
    /\ localFile = NoFile
    /\ revFile = NoFile
    /\ memo = NoMemo
    /\ pc = "idle"
    /\ remote_rev = << >>
    /\ preFile = NoFile
    /\ preMarker = NoFile
    /\ outcome = "none"
    /\ path = "none"
    /\ result = NoTable
    /\ dlCalls = 0
    /\ metaCalls = 0
    /\ sessMeta = 0
    /\ sessDl = 0

NoRow == 0

\* no view has been computed yet
InitViews ==
    /\ AQI_Category = << >>
    /\ cat_counts = << >>
    /\ latest = << >>
    /\ best_zip = NoRow
    /\ worst_zip = NoRow
    /\ latest_locations = << >>
    /\ total_days = 0
    /\ good_days = 0
    /\ unhealthy_days = 0
    /\ pct_good_days = 0
    /\ pct_unhealthy_days = 0

(***************************************************************************)
(* load_data                                                               *)
(***************************************************************************)
\* line 83 on a rerun of the script: the memoised table is returned and the
\* body of load_data does not run.
LoadDataMemoHit ==
    /\ UNCHANGED aggVars
    /\ pc = "idle"
    /\ MemoHit(memo)
    /\ preFile' = localFile
    /\ preMarker' = revFile
    /\ outcome' = "returned"
    /\ path' = "memo"
    /\ result' = memo.table
    /\ dlCalls' = 0
    /\ metaCalls' = 0
    /\ UNCHANGED << remoteRev, localFile, revFile, memo, pc, remote_rev,
                    sessMeta, sessDl >>

\* line 48 raises: nothing catches it, load_data ends with the exception.
LoadDataMetadataError ==
    /\ UNCHANGED aggVars
    /\ pc = "idle"
    /\ ~MemoHit(memo)
    /\ sessMeta < MaxCalls
    /\ preFile' = localFile
    /\ preMarker' = revFile
    /\ metaCalls' = 1
    /\ sessMeta' = sessMeta + 1
    /\ dlCalls' = 0
    /\ outcome' = "RemoteMetadataError"
    /\ path' = "none"
    /\ result' = NoTable
    /\ UNCHANGED << remoteRev, localFile, revFile, memo, pc, remote_rev, sessDl >>

\* lines 45-65: metadata lookup, comparison with the marker, and either the
\* return of the local table (lines 56-60) or the opening of local_path for
\* writing (line 65), after which files_download is in flight.
LoadDataLookup ==
    /\ UNCHANGED aggVars
    /\ pc = "idle"
    /\ ~MemoHit(memo)
    /\ sessMeta < MaxCalls
    /\ preFile' = localFile
    /\ preMarker' = revFile
    /\ metaCalls' = 1
    /\ sessMeta' = sessMeta + 1
    /\ dlCalls' = 0
    /\ remote_rev' = RevToken(remoteRev)
    /\ IF IsUpToDate(localFile, revFile, RevToken(remoteRev))
       THEN /\ path' = "local"
            /\ IF ReadTable(localFile.data) # NoTable
               THEN /\ outcome' = "returned"
                    /\ result' = ReadTable(localFile.data)
                    /\ memo' = [set |-> TRUE, table |-> ReadTable(localFile.data)]
               ELSE /\ outcome' = "ReadError"
                    /\ result' = NoTable
                    /\ memo' = memo
            /\ UNCHANGED << localFile, pc >>
       ELSE /\ path' = "download"
            /\ outcome' = "none"
            /\ result' = NoTable
            /\ localFile' = OpenWb(localFile)
            /\ pc' = "download"
            /\ memo' = memo
    /\ UNCHANGED << remoteRev, revFile, sessDl >>

\* lines 66-78: files_download returns the current remote content, it is
\* written, the marker is written, the table is read and returned.
FilesDownloadOk ==
    /\ UNCHANGED aggVars
    /\ pc = "download"
    /\ dlCalls' = dlCalls + 1
    /\ sessDl' = sessDl + 1
    /\ localFile' = FileOf(Content(remoteRev))
    /\ revFile' = WriteMarker(revFile, remote_rev)
    /\ result' = ReadTable(Content(remoteRev))
    /\ memo' = [set |-> TRUE, table |-> ReadTable(Content(remoteRev))]
    /\ outcome' = "returned"
    /\ pc' = "idle"
    /\ UNCHANGED << remoteRev, remote_rev, preFile, preMarker, path,
                    metaCalls, sessMeta >>

\* lines 66-67 fail: files_download raises (k = 0, nothing written) or the
\* write stops after k bytes; the with-block closes the file and the
\* exception leaves load_data.
FilesDownloadFail ==
    /\ UNCHANGED aggVars
    /\ pc = "download"
    /\ \E k \in 0..(ContentLen - 1) :
          localFile' = FileOf(SubSeq(Content(remoteRev), 1, k))
    /\ dlCalls' = dlCalls + 1
    /\ sessDl' = sessDl + 1
    /\ outcome' = "DownloadError"
    /\ result' = NoTable
    /\ pc' = "idle"
    /\ UNCHANGED << remoteRev, revFile, memo, remote_rev, preFile, preMarker,
                    path, metaCalls, sessMeta >>

\* the remote object is replaced by a new version, with a new revision token
RemoteUpdate ==
    /\ UNCHANGED aggVars
    /\ remoteRev < MaxRev
    /\ remoteRev' = remoteRev + 1
    /\ UNCHANGED << localFile, revFile, memo, pc, remote_rev, preFile,
                    preMarker, outcome, path, result, dlCalls, metaCalls,
                    sessMeta, sessDl >>

\* the process is restarted: the memo is gone, the files in /tmp stay
Restart ==
    /\ UNCHANGED aggVars
    /\ pc = "idle"
    /\ outcome # "none"
    /\ memo' = NoMemo
    /\ sessMeta' = 0
    /\ sessDl' = 0
    /\ outcome' = "none"
    /\ path' = "none"
    /\ result' = NoTable
    /\ dlCalls' = 0
    /\ metaCalls' = 0
    /\ preFile' = localFile
    /\ preMarker' = revFile
    /\ remote_rev' = << >>
    /\ UNCHANGED << remoteRev, localFile, revFile, pc >>

\* load_data.clear(): explicit invalidation of the st.cache_data entry
ClearCache ==
    /\ UNCHANGED aggVars
    /\ pc = "idle"
    /\ MemoHit(memo)
    /\ memo' = NoMemo
    /\ sessMeta' = 0
    /\ sessDl' = 0
    /\ UNCHANGED << remoteRev, localFile, revFile, pc, remote_rev, preFile,
                    preMarker, outcome, path, result, dlCalls, metaCalls >>

(***************************************************************************)
(* The views                                                               *)
(***************************************************************************)
\* lines 186-211: the AQI category distribution of a non-empty table
CategoryDistribution ==
    /\ filtered_df # << >>
    /\ AQI_Category = << >>
    /\ LET col == [i \in 1..Len(filtered_df) |-> categorize_aqi(filtered_df[i].Avg_AQI)]
       IN  /\ AQI_Category' = col
           /\ cat_counts' = CatCounts(col)
    /\ UNCHANGED << loadVars, filtered_df, summaryVars, dayVars >>

\* lines 148-172: the summary metrics of a non-empty table, the first view
\* a run of the script computes
SummaryMetrics ==
    /\ filtered_df # << >>
    /\ latest = << >>
    /\ \E order \in SortedOrders(filtered_df) :
          LET l == GroupTail(filtered_df, "Zip_Code", order)
          IN  /\ latest' = l
              /\ best_zip' = IdxMin(filtered_df, l)
              /\ worst_zip' = IdxMax(filtered_df, l)
    /\ LET days == Dates(filtered_df)
           good == { d \in days : GoodDay(ReadingsOf(filtered_df, d, 1)) }
           bad == { d \in days : UnhealthyDay(ReadingsOf(filtered_df, d, 1)) }
       IN  /\ total_days' = Cardinality(days)
           /\ good_days' = Cardinality(good)
           /\ unhealthy_days' = Cardinality(bad)
           /\ pct_good_days' = PctOfDays(Cardinality(good), Cardinality(days))
           /\ pct_unhealthy_days' = PctOfDays(Cardinality(bad), Cardinality(days))
    /\ UNCHANGED << loadVars, filtered_df, catVars, latest_locations >>

\* lines 327-330: the latest row of every sensor of a non-empty table, computed
\* after the summary metrics in the same run of the script
LatestLocations ==
    /\ filtered_df # << >>
    /\ latest # << >>
    /\ latest_locations = << >>
    /\ \E order \in SortedOrders(filtered_df) :
          latest_locations' = GroupTail(filtered_df, "Sensor_ID", order)
    /\ UNCHANGED << loadVars, filtered_df, catVars, latest, best_zip, worst_zip,
                    dayVars >>

\* lines 164-172 for a table that holds the readings of one more calendar
\* date: the table is kept as the number of its dates, of its good dates and
\* of its unhealthy dates, which is all that lines 167-172 read of daily_aqi.
SummaryDays ==
    /\ total_days < MaxDays
    /\ \E readings \in DayReadings :
          LET g == good_days + (IF GoodDay(readings) THEN 1 ELSE 0)
              u == unhealthy_days + (IF UnhealthyDay(readings) THEN 1 ELSE 0)
              t == total_days + 1
          IN  /\ t - g - u <= MaxMidDays
              /\ total_days' = t
              /\ good_days' = g
              /\ unhealthy_days' = u
              /\ pct_good_days' = PctOfDays(g, t)
              /\ pct_unhealthy_days' = PctOfDays(u, t)
    /\ UNCHANGED << loadVars, filtered_df, catVars, summaryVars >>

(***************************************************************************)
(* Properties of load_data                                                 *)
(***************************************************************************)
\* the last load_data got its metadata and compared it with the marker
LookupDone == path \in {"local", "download"}

\* the cache load_data found on entry was fresh for the token it looked up
LocalFresh ==
    /\ preFile.exists
    /\ preMarker.exists
    /\ Strip(preMarker.data) = remote_rev

\* C1: when a download fails part-way and a cached file and a marker existed
\* before the attempt, both files are identical to their pre-attempt state
\* (the failure is surfaced as the download error).
C1_FailedDownloadLeavesCacheUntouched ==
    (outcome = "DownloadError" /\ preFile.exists /\ preMarker.exists)
        => (localFile = preFile /\ revFile = preMarker)

\* C2: when the metadata lookup fails and a local cached file exists, the
\* load returns the table of that file; the failure is propagated only when
\* there is no local cache.
C2_MetadataFailureFallsBackToCache ==
    (metaCalls = 1 /\ path = "none" /\ outcome # "none" /\ preFile.exists)
        => (outcome = "returned" /\ result = ReadTable(preFile.data))

\* C3: when the cached file and the marker both exist and the marker equals
\* the remote token, load_data makes no download call, writes neither file
\* and returns the contents of the existing local file.
C3_FreshCacheNoDownload ==
    (LookupDone /\ LocalFresh)
        => /\ pc = "idle"
           /\ outcome = "returned"
           /\ dlCalls = 0
           /\ localFile = preFile
           /\ revFile = preMarker
           /\ result # NoTable
           /\ result = ReadTable(preFile.data)

C3_Witness ==
    /\ path = "local"
    /\ outcome = "returned"
    /\ LocalFresh
    /\ result = remoteRev

\* C4: when the marker differs from the remote token, or the cached file or
\* the marker is missing, load_data makes exactly one download call, and
\* after it returned successfully the marker equals the looked-up token.
C4_StaleCacheOneDownload ==
    (LookupDone /\ ~LocalFresh)
        => /\ path = "download"
           /\ dlCalls = (IF pc = "download" THEN 0 ELSE 1)
           /\ pc = "idle" => outcome \in {"returned", "DownloadError"}
           /\ outcome = "returned"
                => /\ revFile.exists
                   /\ Strip(revFile.data) = remote_rev
                   /\ revFile.data = remote_rev

C4_Witness ==
    /\ path = "download"
    /\ outcome = "returned"
    /\ preFile.exists
    /\ preMarker.exists
    /\ Strip(preMarker.data) # remote_rev
    /\ revFile.data = remote_rev

\* C5 as stated: within one session the freshness check and the download
\* each happen at most once unless the memo is explicitly invalidated.
C5_AtMostOncePerSession == sessMeta <= 1 /\ sessDl <= 1

\* C5 amended: once load_data has returned a table, every later call, until
\* the memo is invalidated, returns the memoised table and performs neither
\* the metadata lookup nor a download nor a file write; lookups and downloads
\* repeat within a session only for calls that follow a failed load.
C5_MemoisedCallsDoNothing ==
    [][ (memo.set /\ memo'.set)
          => /\ memo' = memo
             /\ sessMeta' = sessMeta
             /\ sessDl' = sessDl
             /\ localFile' = localFile
             /\ revFile' = revFile
             /\ pc' = "idle"
             /\ (outcome' = "returned" /\ result' = memo.table) ]_vars

C5_Witness ==
    /\ path = "memo"
    /\ outcome = "returned"
    /\ memo.set
    /\ result = memo.table
    /\ sessMeta >= 1
    /\ remoteRev # result

\* C10: whenever load_data is not running and the marker holds token r, the
\* cached file holds the complete content of revision r.
C10_MarkerLabelsItsContent ==
    (pc = "idle" /\ revFile.exists)
        => \E r \in 1..MaxRev :
              /\ Strip(revFile.data) = RevToken(r)
              /\ localFile = FileOf(Content(r))


(***************************************************************************)
(* Properties of the views                                                 *)
(***************************************************************************)
\* C6: for every non-empty table the category distribution has exactly the
\* six category buckets, in the fixed order, zero counts included, and the
\* counts sum to the number of rows.
C6_SixBucketsInOrder ==
    AQI_Category # << >>
        => /\ Len(cat_counts) = 6
           /\ \A k \in 1..Len(cat_counts) :
                 cat_counts[k].Category = category_order[k]
           /\ SumSeq([k \in 1..Len(cat_counts) |-> cat_counts[k].Count])
                 = Len(filtered_df)

\* C7: good_day_pct + unhealthy_day_pct <= 100 for every table, and both
\* are 0 when there are no dates (percentages in tenths).
C7_PercentagesSumAtMost100 ==
    /\ pct_good_days + pct_unhealthy_days <= 1000
    /\ total_days = 0 => (pct_good_days = 0 /\ pct_unhealthy_days = 0)

\* C8: categorize_aqi is the threshold mapping with inclusive upper bounds:
\* <= 50 Good, 51..100 Moderate, 101..150 Unhealthy (Sensitive), 151..200
\* Unhealthy, 201..300 Very Unhealthy, > 300 Hazardous.
C8_CategoryBands ==
    \A i \in 1..Len(AQI_Category) :
        LET a == filtered_df[i].Avg_AQI
            c == AQI_Category[i]
        IN  /\ c \in { category_order[k] : k \in 1..6 }
            /\ (c = "Good") = (a <= 50)
            /\ (c = "Moderate") = (a \in 51..100)
            /\ (c = "Unhealthy (Sensitive)") = (a \in 101..150)
            /\ (c = "Unhealthy") = (a \in 151..200)
            /\ (c = "Very Unhealthy") = (a \in 201..300)
            /\ (c = "Hazardous") = (a > 300)
            /\ a = 50 => c = "Good"
            /\ a = 51 => c = "Moderate"
            /\ a = 100 => c = "Moderate"
            /\ a = 101 => c = "Unhealthy (Sensitive)"
            /\ a = 300 => c = "Very Unhealthy"
            /\ a = 301 => c = "Hazardous"

C8_Witness ==
    /\ Len(AQI_Category) = 2
    /\ filtered_df[1].Avg_AQI = 300
    /\ AQI_Category[1] = "Very Unhealthy"
    /\ filtered_df[2].Avg_AQI = 301
    /\ AQI_Category[2] = "Hazardous"

\* sel holds exactly one row per group key of df, and that row has the
\* maximum timestamp of its group
LatestPerGroup(df, sel, key) ==
    /\ \A i \in 1..Len(df) :
          Cardinality({ k \in 1..Len(sel) : df[sel[k]][key] = df[i][key] }) = 1
    /\ \A k \in 1..Len(sel) :
          /\ sel[k] \in 1..Len(df)
          /\ \A i \in 1..Len(df) :
                df[i][key] = df[sel[k]][key]
                    => df[i].Hour_Timestamp <= df[sel[k]].Hour_Timestamp

\* C9: the latest-per-group reduction returns exactly one row per group key
\* of the non-empty table, the row of maximum timestamp of its group; best_zip
\* and worst_zip are rows of minimum and maximum AQI among the latest rows per
\* ZIP code.
C9_LatestPerGroup ==
    /\ latest # << >>
         => /\ LatestPerGroup(filtered_df, latest, "Zip_Code")
            /\ \E k \in 1..Len(latest) : latest[k] = best_zip
            /\ \E k \in 1..Len(latest) : latest[k] = worst_zip
            /\ \A k \in 1..Len(latest) :
                  /\ filtered_df[best_zip].Avg_AQI <= filtered_df[latest[k]].Avg_AQI
                  /\ filtered_df[worst_zip].Avg_AQI >= filtered_df[latest[k]].Avg_AQI
    /\ latest_locations # << >>
         => LatestPerGroup(filtered_df, latest_locations, "Sensor_ID")

C9_Witness ==
    /\ Len(filtered_df) = 3
    /\ Len(latest) = 2
    /\ Len(latest_locations) = 2
    /\ best_zip # worst_zip
    /\ filtered_df[best_zip].Avg_AQI < filtered_df[worst_zip].Avg_AQI
    /\ \E i \in 1..3 :
          /\ \A k \in 1..2 : latest[k] # i
          /\ filtered_df[i].Zip_Code = filtered_df[best_zip].Zip_Code
          /\ filtered_df[i].Hour_Timestamp < filtered_df[best_zip].Hour_Timestamp
          /\ filtered_df[i].Avg_AQI > filtered_df[best_zip].Avg_AQI

(***************************************************************************)
(* Specifications                                                          *)
(***************************************************************************)
Init ==
    /\ InitLoad
    /\ filtered_df = << >>
    /\ InitViews

Next ==
    \/ LoadDataMemoHit
    \/ LoadDataMetadataError
    \/ LoadDataLookup
    \/ FilesDownloadOk
    \/ FilesDownloadFail
    \/ RemoteUpdate
    \/ Restart
    \/ ClearCache

Spec == Init /\ [][Next]_vars

\* the category view over the tables of CatTables
InitCat ==
    /\ InitLoad
    /\ filtered_df \in CatTables
    /\ InitViews

NextCat == CategoryDistribution

SpecCat == InitCat /\ [][NextCat]_vars

\* the summary and map views over the tables of SummaryTables
InitSummary ==
    /\ InitLoad
    /\ filtered_df \in SummaryTables
    /\ InitViews

NextSummary ==
    \/ SummaryMetrics
    \/ LatestLocations

SpecSummary == InitSummary /\ [][NextSummary]_vars

\* the daily summary over tables growing by one calendar date at a time
NextDays == SummaryDays

SpecDays == Init /\ [][NextDays]_vars

====
